---- MODULE Spec2Model ----
(***************************************************************************)
(* The loan-negotiation broker (src/broker/main.py), its credential table  *)
(* (src/broker/agent_credentials.py) and the consumer and bank agents that *)
(* talk to it, as a state machine.                                         *)
(*                                                                         *)
(* Time is counted in whole seconds, the resolution of a JWT's exp claim.   *)
(* Floats of the source are integers: an interest rate of 0.05 is 5        *)
(* (percent), an amount of 5000.0 is 5000.                                 *)
(* A JWT is modelled symbolically: the payload, the key it was signed with *)
(* and the payload that was signed; HS256 verification succeeds exactly    *)
(* when the key is the verifier's key and the payload is the signed one.   *)
(***************************************************************************)
EXTENDS Integers, Sequences, FiniteSets, TLC

VARIABLES
    now,            \* datetime.now(timezone.utc), in seconds
    SCOPES_MAP,     \* agent_credentials.SCOPES_MAP
    intents_db,     \* main.intents_db
    proposals_db,   \* main.proposals_db
    access_token,   \* each client's access_token variable ("" when none)
    issued_at,      \* history: when the token a client holds was issued
    inflight,       \* per client: the request whose dependency has resolved,
                    \* with the agent_id it produced
    resp,           \* the last response the broker sent, with its request
    seen,           \* per transaction: the last successful get_proposals result
    intent_acked,   \* history: the transactions a submit_intent succeeded for
    acked,          \* history: per transaction, the proposals acknowledged
                    \* since its last successful submit_intent
    c_pc, c_input, c_txid, c_retries, c_proposals, c_best,  \* consumerAgent.main
    b_pc, b_intents,    \* bankAgent.main, and the intents it has still to process
    bB_pc, bB_intents,  \* bankAgentB.main, and its new_intents still to process
    processed_intents,  \* bankAgentB.main's processed_intents
    reachable,      \* the broker answers the agents' HTTP calls
    call,           \* history: the broker call the last agent step made, if any
    sent            \* history: per bank and transaction, the submit_proposal
                    \* calls made

vars == <<now, SCOPES_MAP, intents_db, proposals_db, access_token, issued_at, inflight,
          resp, seen, intent_acked, acked, c_pc, c_input, c_txid, c_retries, c_proposals,
          c_best, b_pc, b_intents, bB_pc, bB_intents, processed_intents, reachable,
          call, sent>>

consumerVars == <<c_pc, c_input, c_txid, c_retries, c_proposals, c_best>>
bankAVars == <<b_pc, b_intents>>
bankBVars == <<bB_pc, bB_intents, processed_intents>>
bankVars == <<bankAVars, bankBVars>>
\* everything on the agents' side of the network
agentVars == <<consumerVars, bankVars, reachable, call, sent>>

-----------------------------------------------------------------------------
(* Bounds of the model *)

\* proposals kept per transaction before clients stop submitting
MaxProposals == 2
\* the clock stops advancing here
MaxTime == 1802

-----------------------------------------------------------------------------
(* Configuration *)

SECRET_KEY == "your-super-secret-key"
ATTACKER_KEY == "some-other-key"
ACCESS_TOKEN_EXPIRE_MINUTES == 30
DEFAULT_EXPIRE_MINUTES == 15

\* timedelta(minutes=m), in seconds
minutes(m) == m * 60

CONSUMER == "consumer_agent_1"
BANK_A == "bank_agent_a"
BANK_B == "bank_agent_b"

AGENT_CREDENTIALS ==
    [a \in {CONSUMER, BANK_A, BANK_B} |->
        CASE a = CONSUMER -> [client_secret |-> "consumer_secret_1",
                              scopes |-> {"consumer:write", "consumer:read"}]
          [] a = BANK_A   -> [client_secret |-> "bank_secret_a",
                              scopes |-> {"bank:write", "bank:read"}]
          [] a = BANK_B   -> [client_secret |-> "bank_secret_b",
                              scopes |-> {"bank:write", "bank:read"}]]

SCOPES_MAP_0 ==
    [a \in {CONSUMER, BANK_A, BANK_B} |->
        CASE a = CONSUMER -> {"consumer:write", "consumer:read"}
          [] a = BANK_A   -> {"bank:write", "bank:read"}
          [] a = BANK_B   -> {"bank:write", "bank:read"}]

Agents == DOMAIN AGENT_CREDENTIALS
Banks == {BANK_A, BANK_B}

\* dict.get(key, [])
scopes_get(smap, agent_id) ==
    IF agent_id \in DOMAIN smap THEN smap[agent_id] ELSE {}

-----------------------------------------------------------------------------
(* Tokens *)

NoneValue == "<None>"
NullPayload == [sub |-> NoneValue, scopes |-> {}, exp |-> 0]
\* no Authorization header / the agents' "" token
NoToken == [present |-> FALSE, payload |-> NullPayload, key |-> "", signed |-> NullPayload]

\* jwt.encode(payload, key, algorithm="HS256")
jwt_encode(payload, key) ==
    [present |-> TRUE, payload |-> payload, key |-> key, signed |-> payload]

\* a token whose payload was edited after signing
Tamper(tok, sub, scopes) ==
    [tok EXCEPT !.payload.sub = sub, !.payload.scopes = scopes]

\* a decode that reads the payload without verifying the signature
jwt_decode_unverified(tok, key, t) ==
    IF ~tok.present THEN [ok |-> FALSE, error |-> "DecodeError", payload |-> NullPayload]
    ELSE IF tok.payload.exp <= t
         THEN [ok |-> FALSE, error |-> "ExpiredSignatureError", payload |-> NullPayload]
    ELSE [ok |-> TRUE, error |-> "", payload |-> tok.payload]

\* jwt.decode(token, key, algorithms=["HS256"]) at time t:
\* the signature is verified first, then exp (expired when exp <= now)
jwt_decode(tok, key, t) ==
    IF ~tok.present THEN [ok |-> FALSE, error |-> "DecodeError", payload |-> NullPayload]
    ELSE IF tok.key # key \/ tok.signed # tok.payload
         THEN [ok |-> FALSE, error |-> "InvalidSignatureError", payload |-> NullPayload]
    ELSE IF tok.payload.exp <= t
         THEN [ok |-> FALSE, error |-> "ExpiredSignatureError", payload |-> NullPayload]
    ELSE [ok |-> TRUE, error |-> "", payload |-> tok.payload]

\* expires_delta is 0 for None (and for the empty timedelta, as falsy)
create_access_token(data, expires_delta, t) ==
    LET expire == IF expires_delta # 0 THEN t + expires_delta
                  ELSE t + minutes(DEFAULT_EXPIRE_MINUTES)
    IN jwt_encode([sub |-> data.sub, scopes |-> data.scopes, exp |-> expire], SECRET_KEY)

\* the dependency of every protected operation
get_current_agent_id(tok, t) ==
    LET d == jwt_decode(tok, SECRET_KEY, t) IN
    IF ~d.ok THEN [status |-> 401, agent_id |-> NoneValue]
    ELSE IF d.payload.sub = NoneValue THEN [status |-> 401, agent_id |-> NoneValue]
    ELSE [status |-> 200, agent_id |-> d.payload.sub]

\* a login that leaves the lifetime to create_access_token's default
login_default_lifetime(username, password, smap, t) ==
    IF username \notin DOMAIN AGENT_CREDENTIALS
       \/ AGENT_CREDENTIALS[username].client_secret # password
    THEN [status |-> 401, detail |-> "Incorrect client ID or secret", access_token |-> NoToken]
    ELSE [status |-> 200, detail |-> "",
          access_token |-> create_access_token(
              [sub |-> username, scopes |-> scopes_get(smap, username)], 0, t)]

\* a login that tells an unknown identity from a wrong secret
login_distinguishing(username, password, smap, t) ==
    IF username \notin DOMAIN AGENT_CREDENTIALS
    THEN [status |-> 401, detail |-> "Unknown client ID", access_token |-> NoToken]
    ELSE IF AGENT_CREDENTIALS[username].client_secret # password
    THEN [status |-> 401, detail |-> "Incorrect client ID or secret", access_token |-> NoToken]
    ELSE [status |-> 200, detail |-> "",
          access_token |-> create_access_token(
              [sub |-> username, scopes |-> scopes_get(smap, username)],
              minutes(ACCESS_TOKEN_EXPIRE_MINUTES), t)]

\* POST /token
login_for_access_token(username, password, smap, t) ==
    IF username \notin DOMAIN AGENT_CREDENTIALS
       \/ AGENT_CREDENTIALS[username].client_secret # password
    THEN [status |-> 401, detail |-> "Incorrect client ID or secret", access_token |-> NoToken]
    ELSE [status |-> 200, detail |-> "",
          access_token |-> create_access_token(
              [sub |-> username, scopes |-> scopes_get(smap, username)],
              minutes(ACCESS_TOKEN_EXPIRE_MINUTES), t)]

-----------------------------------------------------------------------------
(* The stores and the handler bodies *)

NoIntent == [transaction_id |-> NoneValue, amount |-> 0, duration_months |-> 0,
             credit_score |-> "", client_id |-> ""]
NoProposal == [transaction_id |-> NoneValue, proposal_id |-> "", bank_id |-> "",
               offered_amount |-> 0, interest_rate |-> 0, terms |-> ""]

\* d[k] = v
dict_set(d, k, v) == [x \in DOMAIN d \cup {k} |-> IF x = k THEN v ELSE d[x]]

\* an append that writes a fresh list
list_overwrite(d, k, v) == [d EXCEPT ![k] = <<v>>]

\* an append that keeps one proposal per bank
list_append_unique(d, k, v) ==
    IF \E i \in DOMAIN d[k] : d[k][i].bank_id = v.bank_id
    THEN d
    ELSE [d EXCEPT ![k] = Append(@, v)]

\* d[k].append(v)
list_append(d, k, v) == [d EXCEPT ![k] = Append(@, v)]

\* a check that any scope at all suffices
has_scope_any(scopes, required) == scopes # {}

\* required in scopes
has_scope(scopes, required) == required \in scopes

Result(status, detail, body, idb, pdb) ==
    [status |-> status, detail |-> detail, body |-> body, idb |-> idb, pdb |-> pdb]

\* a submit_intent that leaves the proposal store to a later step
submit_intent_noinit(intent, agent_id, smap, idb, pdb) ==
    LET scopes == scopes_get(smap, agent_id) IN
    IF ~has_scope(scopes, "consumer:write")
    THEN Result(403, "Not authorized to submit intents", <<>>, idb, pdb)
    ELSE Result(200, "Intent received", <<>>,
                dict_set(idb, intent.transaction_id, intent), pdb)

\* a submit_intent that opens a Proposal Set only for a new transaction
submit_intent_keep_proposals(intent, agent_id, smap, idb, pdb) ==
    LET scopes == scopes_get(smap, agent_id) IN
    IF ~has_scope(scopes, "consumer:write")
    THEN Result(403, "Not authorized to submit intents", <<>>, idb, pdb)
    ELSE Result(200, "Intent received", <<>>,
                dict_set(idb, intent.transaction_id, intent),
                IF intent.transaction_id \in DOMAIN pdb THEN pdb
                ELSE dict_set(pdb, intent.transaction_id, <<>>))

\* a submit_intent that stores the intent before it checks the scope
submit_intent_store_first(intent, agent_id, smap, idb, pdb) ==
    LET scopes == scopes_get(smap, agent_id)
        stored == dict_set(idb, intent.transaction_id, intent)
    IN
    IF ~has_scope(scopes, "consumer:write")
    THEN Result(403, "Not authorized to submit intents", <<>>, stored, pdb)
    ELSE Result(200, "Intent received", <<>>, stored,
                dict_set(pdb, intent.transaction_id, <<>>))

\* the body of POST /submit_intent, after the dependency returned agent_id
submit_intent(intent, agent_id, smap, idb, pdb) ==
    LET scopes == scopes_get(smap, agent_id) IN
    IF ~has_scope(scopes, "consumer:write")
    THEN Result(403, "Not authorized to submit intents", <<>>, idb, pdb)
    ELSE Result(200, "Intent received", <<>>,
                dict_set(idb, intent.transaction_id, intent),
                dict_set(pdb, intent.transaction_id, <<>>))

\* a submit_proposal that opens a Proposal Set for an unknown transaction
submit_proposal_autocreate(proposal, agent_id, smap, idb, pdb) ==
    LET scopes == scopes_get(smap, agent_id)
        transaction_id == proposal.transaction_id
    IN
    IF ~has_scope(scopes, "bank:write")
    THEN Result(403, "Not authorized to submit proposals", <<>>, idb, pdb)
    ELSE IF transaction_id \notin DOMAIN pdb
    THEN Result(200, "Proposal received", <<>>, idb,
                dict_set(pdb, transaction_id, <<proposal>>))
    ELSE Result(200, "Proposal received", <<>>, idb,
                list_append(pdb, transaction_id, proposal))

\* a submit_proposal that looks the transaction up before it checks the scope
submit_proposal_lookup_first(proposal, agent_id, smap, idb, pdb) ==
    LET scopes == scopes_get(smap, agent_id)
        transaction_id == proposal.transaction_id
    IN
    IF transaction_id \notin DOMAIN pdb
    THEN Result(404, "Transaction ID not found", <<>>, idb, pdb)
    ELSE IF ~has_scope(scopes, "bank:write")
    THEN Result(403, "Not authorized to submit proposals", <<>>, idb, pdb)
    ELSE Result(200, "Proposal received", <<>>, idb,
                list_append(pdb, transaction_id, proposal))

\* the body of POST /submit_proposal
submit_proposal(proposal, agent_id, smap, idb, pdb) ==
    LET scopes == scopes_get(smap, agent_id)
        transaction_id == proposal.transaction_id
    IN
    IF ~has_scope(scopes, "bank:write")
    THEN Result(403, "Not authorized to submit proposals", <<>>, idb, pdb)
    ELSE IF transaction_id \notin DOMAIN pdb
    THEN Result(404, "Transaction ID not found", <<>>, idb, pdb)
    ELSE Result(200, "Proposal received", <<>>, idb,
                list_append(pdb, transaction_id, proposal))

\* a get_proposals that answers an unknown transaction with the empty list
get_proposals_default(transaction_id, agent_id, smap, idb, pdb) ==
    LET scopes == scopes_get(smap, agent_id) IN
    IF ~has_scope(scopes, "consumer:read")
    THEN Result(403, "Not authorized to read proposals", <<>>, idb, pdb)
    ELSE IF transaction_id \notin DOMAIN pdb
    THEN Result(200, "", <<>>, idb, pdb)
    ELSE Result(200, "", pdb[transaction_id], idb, pdb)

\* the body of GET /get_proposals/{transaction_id}
get_proposals(transaction_id, agent_id, smap, idb, pdb) ==
    LET scopes == scopes_get(smap, agent_id) IN
    IF ~has_scope(scopes, "consumer:read")
    THEN Result(403, "Not authorized to read proposals", <<>>, idb, pdb)
    ELSE IF transaction_id \notin DOMAIN pdb
    THEN Result(404, "Transaction ID not found", <<>>, idb, pdb)
    ELSE Result(200, "", pdb[transaction_id], idb, pdb)

-----------------------------------------------------------------------------
(* Requests *)

\* the empty string is a transaction identifier like any other to the broker
TxIds == {"t1", ""}

IntentInputs(T) ==
    {[transaction_id |-> t, amount |-> 5000, duration_months |-> 12,
      credit_score |-> cs, client_id |-> CONSUMER] :
        t \in T, cs \in {"good", "poor"}}

ProposalOf(bank, t) ==
    IF bank = BANK_A
    THEN [transaction_id |-> t, proposal_id |-> "p1", bank_id |-> BANK_A,
          offered_amount |-> 5000, interest_rate |-> 5,
          terms |-> "5% APR, excellent credit offer"]
    ELSE [transaction_id |-> t, proposal_id |-> "p2", bank_id |-> BANK_B,
          offered_amount |-> 5000, interest_rate |-> 6,
          terms |-> "6% APR, good credit offer (bank B)"]

ProposalInputs(T) == {ProposalOf(b, t) : b \in Banks, t \in T}

IntentRequest(i) ==
    [op |-> "submit_intent", transaction_id |-> i.transaction_id,
     intent |-> i, proposal |-> NoProposal]
ProposalRequest(p) ==
    [op |-> "submit_proposal", transaction_id |-> p.transaction_id,
     intent |-> NoIntent, proposal |-> p]
QueryRequest(t) ==
    [op |-> "get_proposals", transaction_id |-> t,
     intent |-> NoIntent, proposal |-> NoProposal]
NoRequest ==
    [op |-> "none", transaction_id |-> NoneValue,
     intent |-> NoIntent, proposal |-> NoProposal]

\* a proposal set has room under the bound
HasRoom(t) == t \in DOMAIN proposals_db => Len(proposals_db[t]) < MaxProposals

\* the requests on the transaction identifiers T
Requests(T) ==
    {IntentRequest(i) : i \in IntentInputs(T)}
    \cup {ProposalRequest(p) : p \in {q \in ProposalInputs(T) : HasRoom(q.transaction_id)}}
    \cup {QueryRequest(t) : t \in T}

\* the requests an agent of each role makes
RoleRequests(c, T) ==
    IF c = CONSUMER
    THEN {IntentRequest(i) : i \in IntentInputs(T)} \cup {QueryRequest(t) : t \in T}
    ELSE {ProposalRequest(ProposalOf(c, t)) : t \in {u \in T : HasRoom(u)}}

\* the scope each protected operation asks for
RequiredScope(op) ==
    CASE op = "submit_intent"   -> "consumer:write"
      [] op = "submit_proposal" -> "bank:write"
      [] op = "get_proposals"   -> "consumer:read"

\* the handler body FastAPI runs once the dependency has produced agent_id
Handle(req, agent_id, smap, idb, pdb) ==
    CASE req.op = "submit_intent" ->
            submit_intent(req.intent, agent_id, smap, idb, pdb)
      [] req.op = "submit_proposal" ->
            submit_proposal(req.proposal, agent_id, smap, idb, pdb)
      [] req.op = "get_proposals" ->
            get_proposals(req.transaction_id, agent_id, smap, idb, pdb)

Unauthorized(idb, pdb) ==
    Result(401, "Invalid authentication credentials", <<>>, idb, pdb)

\* a request whose body runs on the subject the token names before the
\* token is verified
Endpoint_late_auth(req, tok, t, smap, idb, pdb) ==
    LET a == get_current_agent_id(tok, t)
        r == Handle(req, tok.payload.sub, smap, idb, pdb)
    IN
    IF a.status # 200
    THEN Unauthorized(r.idb, r.pdb)
    ELSE r

\* a whole protected request: the dependency, then the body
Endpoint(req, tok, t, smap, idb, pdb) ==
    LET a == get_current_agent_id(tok, t) IN
    IF a.status # 200
    THEN Unauthorized(idb, pdb)
    ELSE Handle(req, a.agent_id, smap, idb, pdb)

\* the identity a client would like to pass for
Victim(c) == IF c = CONSUMER THEN BANK_A ELSE CONSUMER

\* the bearer tokens client c can put on a request: its own, none, its own
\* with the subject and scopes rewritten, and one signed with another key
Presentable(c) ==
    {access_token[c], NoToken}
    \cup (IF access_token[c].present
          THEN {Tamper(access_token[c], Victim(c), SCOPES_MAP_0[Victim(c)])}
          ELSE {})
    \cup {jwt_encode([sub |-> Victim(c), scopes |-> SCOPES_MAP_0[Victim(c)],
                      exp |-> now + minutes(ACCESS_TOKEN_EXPIRE_MINUTES)],
                     ATTACKER_KEY)}

NotSeen == [any |-> FALSE, set |-> {}]
Range(s) == {s[i] : i \in DOMAIN s}

NoResp ==
    [req |-> NoRequest, token |-> NoToken, at |-> 0, status |-> 0,
     detail |-> "", body |-> <<>>, agent_id |-> NoneValue, scopes |-> {},
     pre_idb |-> <<>>, pre_pdb |-> <<>>, prev_seen |-> NotSeen,
     username |-> NoneValue, password |-> NoneValue, overlap |-> {}]

\* the record of one answered protected request: the request, the token and
\* the time it was verified at, the answer, what the dependency and the
\* handler's scope lookup produced, the stores as the handler found them, and
\* (overlap) the clients whose requests were in flight at the same time
Response(req, tok, at, r, a, smap, idb, pdb, prev) ==
    [req |-> req, token |-> tok, at |-> at, status |-> r.status,
     detail |-> r.detail, body |-> r.body, agent_id |-> a.agent_id,
     scopes |-> IF a.status = 200 THEN scopes_get(smap, a.agent_id) ELSE {},
     pre_idb |-> idb, pre_pdb |-> pdb, prev_seen |-> prev,
     username |-> NoneValue, password |-> NoneValue, overlap |-> {}]

-----------------------------------------------------------------------------
(* Actions *)

EmptyDb == <<>>
NoCall == [agent |-> NoneValue, op |-> "none", ok |-> TRUE]
Idle == [req |-> NoRequest, agent_id |-> NoneValue, token |-> NoToken, at |-> 0,
         overlap |-> {}]

Init ==
    /\ now = 0
    /\ SCOPES_MAP = SCOPES_MAP_0
    /\ intents_db = EmptyDb
    /\ proposals_db = EmptyDb
    /\ access_token = [c \in Agents |-> NoToken]
    /\ issued_at = [c \in Agents |-> -1]
    /\ inflight = [c \in Agents |-> Idle]
    /\ resp = NoResp
    /\ seen = [t \in TxIds |-> NotSeen]
    /\ intent_acked = {}
    /\ acked = [t \in TxIds |-> <<>>]
    /\ c_pc = "start"
    /\ c_input = NoIntent
    /\ c_txid = NoneValue
    /\ c_retries = 0
    /\ c_proposals = <<>>
    /\ c_best = NoProposal
    /\ b_pc = "start"
    /\ b_intents = <<>>
    /\ bB_pc = "start"
    /\ bB_intents = <<>>
    /\ processed_intents = {}
    /\ reachable = TRUE
    /\ call = NoCall
    /\ sent = [b \in Banks |-> [t \in TxIds |-> 0]]

\* the clock advances by d seconds
Tick(d) ==
    /\ now + d <= MaxTime
    /\ now' = now + d
    /\ UNCHANGED <<SCOPES_MAP, intents_db, proposals_db, access_token, issued_at,
                   inflight, resp, seen, intent_acked, acked>>
    /\ UNCHANGED agentVars

\* get_access_token() of a client against POST /token
Login(c, username, password) ==
    LET r == login_for_access_token(username, password, SCOPES_MAP, now) IN
    /\ inflight[c] = Idle
    /\ access_token' = [access_token EXCEPT ![c] = r.access_token]
    /\ issued_at' = [issued_at EXCEPT ![c] = IF r.status = 200 THEN now ELSE -1]
    /\ resp' = [NoResp EXCEPT !.req.op = "token", !.at = now, !.status = r.status,
                              !.detail = r.detail, !.token = r.access_token,
                              !.username = username, !.password = password]
    /\ UNCHANGED <<now, SCOPES_MAP, intents_db, proposals_db, inflight, seen,
                   intent_acked, acked>>
    /\ UNCHANGED agentVars

\* the history of acknowledgments
Record(req, r) ==
    LET t == req.transaction_id IN
    /\ intent_acked' = IF req.op = "submit_intent" /\ r.status = 200
                       THEN intent_acked \cup {t} ELSE intent_acked
    /\ acked' = IF r.status # 200 THEN acked
                ELSE IF req.op = "submit_intent" THEN [acked EXCEPT ![t] = <<>>]
                ELSE IF req.op = "submit_proposal"
                     THEN [acked EXCEPT ![t] = Append(@, req.proposal)]
                ELSE acked

\* one protected request of client c, from the dependency to the response;
\* prev is what the client saw the last time it queried the same transaction
Served(c, tok, req, prev) ==
    LET a == get_current_agent_id(tok, now)
        r == Endpoint(req, tok, now, SCOPES_MAP, intents_db, proposals_db)
    IN
    /\ inflight[c] = Idle
    /\ intents_db' = r.idb
    /\ proposals_db' = r.pdb
    /\ resp' = Response(req, tok, now, r, a, SCOPES_MAP, intents_db, proposals_db, prev)
    /\ Record(req, r)
    /\ UNCHANGED <<now, SCOPES_MAP, access_token, issued_at, inflight>>
    /\ UNCHANGED agentVars

Request(c, tok, req) ==
    /\ Served(c, tok, req, NotSeen)
    /\ UNCHANGED seen

\* the identities and secrets a client tries
Usernames(c) == {c, "unknown_agent"}
Passwords(c) == {AGENT_CREDENTIALS[c].client_secret, "wrong_secret"}

\* the broker's protocol, each client sending the token it holds
Clients == {CONSUMER, BANK_A}

Next ==
    \E c \in Clients :
        \/ \E u \in Usernames(c), p \in Passwords(c) : Login(c, u, p)
        \/ \E req \in Requests(TxIds) : Request(c, access_token[c], req)

Spec == Init /\ [][Next]_vars

-----------------------------------------------------------------------------
(* The consumer's view over time *)

\* a request whose get_proposals results the client remembers
Observed(c, tok, req) ==
    LET t == req.transaction_id
        r == Endpoint(req, tok, now, SCOPES_MAP, intents_db, proposals_db)
    IN
    /\ Served(c, tok, req, IF req.op = "get_proposals" THEN seen[t] ELSE NotSeen)
    /\ seen' = IF req.op = "get_proposals" /\ r.status = 200
               THEN [seen EXCEPT ![t] = [any |-> TRUE, set |-> Range(r.body)]]
               ELSE seen

QueryTx == {"t1"}

NextQuery ==
    \E c \in Clients :
        \/ Login(c, c, AGENT_CREDENTIALS[c].client_secret)
        \/ \E req \in Requests(QueryTx) : Observed(c, access_token[c], req)

SpecQuery == Init /\ [][NextQuery]_vars

-----------------------------------------------------------------------------
(* Concurrent requests.  get_current_agent_id is a plain function, which   *)
(* FastAPI runs in its thread pool and awaits; the handlers are coroutines *)
(* without an await, so each body runs on the event loop in one piece.     *)
(* Requests of different clients interleave between the two.               *)

InFlight == {d \in Agents : inflight[d] # Idle}

\* the dependency of client c's request resolves
Begin(c, req) ==
    LET tok == access_token[c]
        a == get_current_agent_id(tok, now)
    IN
    /\ inflight[c] = Idle
    /\ IF a.status # 200
       THEN /\ resp' = Response(req, tok, now,
                                Unauthorized(intents_db, proposals_db), a,
                                SCOPES_MAP, intents_db, proposals_db, NotSeen)
            /\ UNCHANGED inflight
       ELSE /\ inflight' =
                [d \in Agents |->
                    IF d = c
                    THEN [req |-> req, agent_id |-> a.agent_id, token |-> tok,
                          at |-> now, overlap |-> InFlight]
                    ELSE IF inflight[d] # Idle
                    THEN [inflight[d] EXCEPT !.overlap = @ \cup {c}]
                    ELSE inflight[d]]
            /\ UNCHANGED resp
    /\ UNCHANGED <<now, SCOPES_MAP, intents_db, proposals_db, access_token,
                   issued_at, seen, intent_acked, acked>>
    /\ UNCHANGED agentVars

\* the handler body of client c's request runs and the response is sent
Finish(c) ==
    LET f == inflight[c]
        a == [status |-> 200, agent_id |-> f.agent_id]
        r == Handle(f.req, f.agent_id, SCOPES_MAP, intents_db, proposals_db)
    IN
    /\ f # Idle
    /\ intents_db' = r.idb
    /\ proposals_db' = r.pdb
    /\ resp' = [Response(f.req, f.token, f.at, r, a, SCOPES_MAP, intents_db,
                         proposals_db, NotSeen) EXCEPT !.overlap = f.overlap]
    /\ Record(f.req, r)
    /\ inflight' = [inflight EXCEPT ![c] = Idle]
    /\ UNCHANGED <<now, SCOPES_MAP, access_token, issued_at, seen>>
    /\ UNCHANGED agentVars

ConcTx == {"t1"}

NextConc ==
    \E c \in Agents :
        \/ Login(c, c, AGENT_CREDENTIALS[c].client_secret)
        \/ \E req \in RoleRequests(c, ConcTx) : Begin(c, req)
        \/ Finish(c)

SpecConc == Init /\ [][NextConc]_vars

-----------------------------------------------------------------------------
(* Tokens over time: one client, the clock, and every token it can present *)

AuthClients == {CONSUMER}
AuthTx == {"t1"}

\* the instants the clock visits: the first seconds, and the seconds around
\* the expiry of the tokens issued in them
Instants == {0, 1} \cup ((minutes(ACCESS_TOKEN_EXPIRE_MINUTES) - 1) .. MaxTime)
Later == {i \in Instants : i > now}
NextInstant == CHOOSE i \in Later : \A j \in Later : i <= j

NextAuth ==
    \/ (Later # {} /\ Tick(NextInstant - now))
    \/ \E c \in AuthClients :
        \/ \E u \in Usernames(c), p \in Passwords(c) : Login(c, u, p)
        \/ \E tok \in Presentable(c), req \in Requests(AuthTx) : Request(c, tok, req)

SpecAuth == Init /\ [][NextAuth]_vars

-----------------------------------------------------------------------------
(* The credential table changes.  The table is a module of the broker: it   *)
(* changes when the broker is started again with an edited table (uvicorn   *)
(* --reload does so on every edit).  The stores are in memory and start     *)
(* empty; SECRET_KEY is the same, so the tokens issued before still verify. *)

ScopeTables ==
    {SCOPES_MAP_0,
     [SCOPES_MAP_0 EXCEPT ![CONSUMER] = {"consumer:read"}],
     [SCOPES_MAP_0 EXCEPT ![BANK_A] = {"bank:write", "bank:read", "consumer:read"}]}

Redeploy(table) ==
    /\ table # SCOPES_MAP
    /\ SCOPES_MAP' = table
    /\ intents_db' = EmptyDb
    /\ proposals_db' = EmptyDb
    /\ inflight' = [c \in Agents |-> Idle]
    /\ intent_acked' = {}
    /\ acked' = [t \in TxIds |-> <<>>]
    /\ seen' = [t \in TxIds |-> NotSeen]
    /\ UNCHANGED <<now, access_token, issued_at, resp>>
    /\ UNCHANGED agentVars

ReprovTx == {"t1"}

NextReprov ==
    \/ \E table \in ScopeTables : Redeploy(table)
    \/ \E c \in Clients :
        \/ Login(c, c, AGENT_CREDENTIALS[c].client_secret)
        \/ \E req \in Requests(ReprovTx) : Request(c, access_token[c], req)

SpecReprov == Init /\ [][NextReprov]_vars

-----------------------------------------------------------------------------
(* Every way a protected request can be refused: two clients, the tokens   *)
(* each can present, and the clock at the issue and at the expiry of the   *)
(* first tokens                                                            *)

FrameTx == {"t1"}

NextFrame ==
    \/ Tick(minutes(ACCESS_TOKEN_EXPIRE_MINUTES))
    \/ \E c \in Clients :
        \/ Login(c, c, AGENT_CREDENTIALS[c].client_secret)
        \/ \E tok \in Presentable(c), req \in Requests(FrameTx) : Request(c, tok, req)

SpecFrame == Init /\ [][NextFrame]_vars

-----------------------------------------------------------------------------
(* The agents: consumerAgent.main, bankAgent.main and bankAgentB.main      *)
(* against the broker                                                      *)

MAX_RETRIES == 10

\* the routes main.py registers
Routes ==
    {<<"POST", "/token">>, <<"POST", "/submit_intent">>,
     <<"POST", "/submit_proposal">>, <<"GET", "/get_proposals/{transaction_id}">>}

\* requests.get(GET_INTENTS_URL): the broker answers a path it has no route
\* for with 404
get_intents_response ==
    IF <<"GET", "/get_intents">> \in Routes
    THEN [status |-> 200, json |-> <<>>]
    ELSE [status |-> 404, json |-> <<>>]

\* no response at all: requests raises ConnectionError
NoResponse == [status |-> 0, json |-> <<>>]

\* the call raised a RequestException: no response, or raise_for_status on a
\* 4xx or 5xx answer
raised(status) == status = 0 \/ status >= 400

\* bankAgent.process_intent: NoProposal stands for None
process_intent(intent) ==
    LET credit_score == intent.credit_score
        offer(rate, terms) ==
            [transaction_id |-> intent.transaction_id, proposal_id |-> "p1",
             bank_id |-> BANK_A, offered_amount |-> intent.amount,
             interest_rate |-> rate, terms |-> terms]
    IN
    IF credit_score = "good" THEN offer(5, "5% APR, excellent credit offer")
    ELSE IF credit_score = "fair" THEN offer(10, "10% APR, standard offer")
    ELSE IF credit_score = "poor" THEN NoProposal
    ELSE offer(15, "15% APR, high-risk offer")

\* bankAgentB.process_intent, which makes an offer for every credit score
process_intent_B(intent) ==
    LET credit_score == intent.credit_score
        offer(rate, terms) ==
            [transaction_id |-> intent.transaction_id, proposal_id |-> "p2",
             bank_id |-> BANK_B, offered_amount |-> intent.amount,
             interest_rate |-> rate, terms |-> terms]
    IN
    IF credit_score = "good" THEN offer(6, "6% APR, good credit offer (bank B)")
    ELSE IF credit_score = "fair" THEN offer(11, "11% APR, standard offer (bank B)")
    ELSE IF credit_score = "poor" THEN offer(14, "14% APR, high-risk offer (bank B)")
    ELSE offer(16, "16% APR, unknown credit risk offer (bank B)")

\* min(proposals, key=lambda x: x['interest_rate']): the first of the cheapest
best_offer(proposals) ==
    LET i == CHOOSE i \in DOMAIN proposals :
                /\ \A j \in DOMAIN proposals :
                        proposals[i].interest_rate <= proposals[j].interest_rate
                /\ \A j \in 1 .. (i - 1) :
                        proposals[j].interest_rate > proposals[i].interest_rate
    IN proposals[i]

CreditScores == {"good", "fair", "poor"}

\* what no agent step changes
brokerSide == <<now, SCOPES_MAP, inflight, resp, seen, reachable>>
\* what a protected call can change
storeVars == <<intents_db, proposals_db, intent_acked, acked>>
\* what get_access_token can change
tokenVars == <<access_token, issued_at>>

\* POST /token as agent c's get_access_token() finds it
token_response(c) ==
    IF reachable
    THEN login_for_access_token(c, AGENT_CREDENTIALS[c].client_secret, SCOPES_MAP, now)
    ELSE [status |-> 0, detail |-> "ConnectionError", access_token |-> NoToken]

\* a protected operation as an agent's call finds it
Call(req, tok) ==
    IF reachable
    THEN Endpoint(req, tok, now, SCOPES_MAP, intents_db, proposals_db)
    ELSE Result(0, "ConnectionError", <<>>, intents_db, proposals_db)

\* an agent's get_access_token(), which returns "" on failure
AgentLogin(c) ==
    LET r == token_response(c) IN
    /\ access_token' = [access_token EXCEPT ![c] = r.access_token]
    /\ issued_at' = [issued_at EXCEPT ![c] = IF r.status = 200 THEN now ELSE -1]
    /\ call' = [agent |-> c, op |-> "token", ok |-> ~raised(r.status)]

\* an agent's protected call, answered by the broker
AgentCall(r, req) ==
    /\ intents_db' = r.idb
    /\ proposals_db' = r.pdb
    /\ Record(req, r)

\* consumerAgent.main, lines 85-88
ConsumerStart ==
    /\ c_pc = "start"
    /\ AgentLogin(CONSUMER)
    /\ c_pc' = IF access_token'[CONSUMER] = NoToken THEN "exit" ELSE "input"
    /\ UNCHANGED <<brokerSide, storeVars, sent>>
    /\ UNCHANGED <<c_input, c_txid, c_retries, c_proposals, c_best, bankVars>>

\* lines 91-94
ConsumerInput(credit_score) ==
    /\ c_pc = "input"
    /\ c_input' = [transaction_id |-> NoneValue, amount |-> 5000,
                   duration_months |-> 12, credit_score |-> credit_score,
                   client_id |-> CONSUMER]
    /\ c_pc' = "submit"
    /\ call' = NoCall
    /\ UNCHANGED <<brokerSide, storeVars, tokenVars, sent>>
    /\ UNCHANGED <<c_txid, c_retries, c_proposals, c_best, bankVars>>

\* lines 97-99, submit_loan_intent with the uuid4 it draws
ConsumerSubmit(transaction_id) ==
    LET req == IntentRequest([c_input EXCEPT !.transaction_id = transaction_id])
        r == Call(req, access_token[CONSUMER])
    IN
    /\ c_pc = "submit"
    /\ transaction_id \notin DOMAIN intents_db
    /\ AgentCall(r, req)
    /\ call' = [agent |-> CONSUMER, op |-> "submit_intent", ok |-> ~raised(r.status)]
    /\ c_txid' = IF ~raised(r.status) THEN transaction_id ELSE NoneValue
    /\ c_pc' = IF ~raised(r.status) THEN "poll" ELSE "exit"
    /\ UNCHANGED <<brokerSide, tokenVars, sent>>
    /\ UNCHANGED <<c_input, c_retries, c_proposals, c_best, bankVars>>

\* one turn of the polling loop, lines 105-114 (a failed get_proposals
\* returns {}, which counts as no proposals); when proposals arrive the loop
\* breaks and lines 123-129 pick the best offer
ConsumerPoll ==
    LET req == QueryRequest(c_txid)
        r == Call(req, access_token[CONSUMER])
        proposals == IF ~raised(r.status) THEN r.body ELSE <<>>
    IN
    /\ c_pc = "poll"
    /\ c_proposals = <<>> /\ c_retries < MAX_RETRIES
    /\ AgentCall(r, req)
    /\ call' = [agent |-> CONSUMER, op |-> "get_proposals", ok |-> ~raised(r.status)]
    /\ c_proposals' = proposals
    /\ IF proposals # <<>>
       THEN /\ c_best' = best_offer(proposals)
            /\ c_pc' = "done"
            /\ UNCHANGED c_retries
       ELSE /\ c_retries' = c_retries + 1
            /\ UNCHANGED <<c_best, c_pc>>
    /\ UNCHANGED <<brokerSide, tokenVars, sent>>
    /\ UNCHANGED <<c_input, c_txid, bankVars>>

\* a loop that gives up after any poll without proposals
ConsumerGiveUp_early ==
    /\ c_pc = "poll"
    /\ c_proposals = <<>> /\ c_retries >= 1
    /\ c_pc' = "exit"
    /\ call' = NoCall
    /\ UNCHANGED <<brokerSide, storeVars, tokenVars, sent>>
    /\ UNCHANGED <<c_input, c_txid, c_retries, c_proposals, c_best, bankVars>>

\* the loop ends without proposals, lines 116-118
ConsumerGiveUp ==
    /\ c_pc = "poll"
    /\ c_proposals = <<>> /\ ~(c_retries < MAX_RETRIES)
    /\ c_pc' = "exit"
    /\ call' = NoCall
    /\ UNCHANGED <<brokerSide, storeVars, tokenVars, sent>>
    /\ UNCHANGED <<c_input, c_txid, c_retries, c_proposals, c_best, bankVars>>

\* bankAgent.main, lines 101-104
BankStart ==
    /\ b_pc = "start"
    /\ AgentLogin(BANK_A)
    /\ b_pc' = IF access_token'[BANK_A] = NoToken THEN "exit" ELSE "poll"
    /\ UNCHANGED <<brokerSide, storeVars, sent>>
    /\ UNCHANGED <<consumerVars, b_intents, bankBVars>>

\* lines 110-113 with the answer the discovery call got; raise_for_status
\* raises on 4xx and 5xx
BankPollGot(response) ==
    /\ b_pc = "poll"
    /\ call' = [agent |-> BANK_A, op |-> "get_intents", ok |-> ~raised(response.status)]
    /\ IF raised(response.status)
       THEN b_pc' = "retry" /\ UNCHANGED b_intents
       ELSE b_pc' = "process" /\ b_intents' = response.json
    /\ UNCHANGED <<brokerSide, storeVars, tokenVars, sent>>
    /\ UNCHANGED <<consumerVars, bankBVars>>

\* the discovery call against the broker of main.py
BankPoll == BankPollGot(IF reachable THEN get_intents_response ELSE NoResponse)

\* lines 115-124: one intent of the listing is processed and its proposal,
\* if any, submitted (a failed submission is logged and dropped); after the
\* last one the agent sleeps and polls again
BankProcess ==
    /\ b_pc = "process"
    /\ IF b_intents = <<>>
       THEN /\ b_pc' = "poll"
            /\ call' = NoCall
            /\ UNCHANGED <<b_intents, storeVars, sent>>
       ELSE LET proposal == process_intent(Head(b_intents))
                req == ProposalRequest(proposal)
                r == Call(req, access_token[BANK_A])
            IN
            /\ b_intents' = Tail(b_intents)
            /\ UNCHANGED b_pc
            /\ IF proposal # NoProposal
               THEN /\ HasRoom(proposal.transaction_id)
                    /\ AgentCall(r, req)
                    /\ call' = [agent |-> BANK_A, op |-> "submit_proposal",
                                ok |-> ~raised(r.status)]
                    /\ sent' = [sent EXCEPT ![BANK_A][proposal.transaction_id] = @ + 1]
               ELSE /\ call' = NoCall
                    /\ UNCHANGED <<storeVars, sent>>
    /\ UNCHANGED <<brokerSide, tokenVars>>
    /\ UNCHANGED <<consumerVars, bankBVars>>

\* a bank that gives up when it cannot get a new token
BankRetry_fatal ==
    /\ b_pc = "retry"
    /\ AgentLogin(BANK_A)
    /\ b_pc' = IF access_token'[BANK_A] = NoToken THEN "exit" ELSE "poll"
    /\ UNCHANGED <<brokerSide, storeVars, sent>>
    /\ UNCHANGED <<consumerVars, b_intents, bankBVars>>

\* lines 126-130: a new token, which may be "", and the loop goes on
BankRetry ==
    /\ b_pc = "retry"
    /\ AgentLogin(BANK_A)
    /\ b_pc' = "poll"
    /\ UNCHANGED <<brokerSide, storeVars, sent>>
    /\ UNCHANGED <<consumerVars, b_intents, bankBVars>>

\* bankAgentB.main, lines 102-109
BankBStart ==
    /\ bB_pc = "start"
    /\ AgentLogin(BANK_B)
    /\ bB_pc' = IF access_token'[BANK_B] = NoToken THEN "exit" ELSE "poll"
    /\ UNCHANGED <<brokerSide, storeVars, sent>>
    /\ UNCHANGED <<consumerVars, bankAVars, bB_intents, processed_intents>>

\* lines 112-119: the discovery call, and the intents not processed before
BankBPollGot(response) ==
    LET new(intent) == intent.transaction_id \notin processed_intents IN
    /\ bB_pc = "poll"
    /\ call' = [agent |-> BANK_B, op |-> "get_intents", ok |-> ~raised(response.status)]
    /\ IF raised(response.status)
       THEN bB_pc' = "retry" /\ UNCHANGED bB_intents
       ELSE bB_pc' = "process" /\ bB_intents' = SelectSeq(response.json, new)
    /\ UNCHANGED <<brokerSide, storeVars, tokenVars, sent>>
    /\ UNCHANGED <<consumerVars, bankAVars, processed_intents>>

BankBPoll == BankBPollGot(IF reachable THEN get_intents_response ELSE NoResponse)

\* lines 121-131: one new intent is processed, its proposal submitted (a
\* failed submission is logged and dropped) and the intent remembered
BankBProcess ==
    /\ bB_pc = "process"
    /\ IF bB_intents = <<>>
       THEN /\ bB_pc' = "poll"
            /\ call' = NoCall
            /\ UNCHANGED <<bB_intents, processed_intents, storeVars, sent>>
       ELSE LET proposal == process_intent_B(Head(bB_intents))
                req == ProposalRequest(proposal)
                r == Call(req, access_token[BANK_B])
            IN
            /\ bB_intents' = Tail(bB_intents)
            /\ UNCHANGED bB_pc
            /\ HasRoom(proposal.transaction_id)
            /\ AgentCall(r, req)
            /\ call' = [agent |-> BANK_B, op |-> "submit_proposal",
                        ok |-> ~raised(r.status)]
            /\ sent' = [sent EXCEPT ![BANK_B][proposal.transaction_id] = @ + 1]
            /\ processed_intents' =
                    processed_intents \cup {Head(bB_intents).transaction_id}
    /\ UNCHANGED <<brokerSide, tokenVars>>
    /\ UNCHANGED <<consumerVars, bankAVars>>

\* lines 133-137
BankBRetry ==
    /\ bB_pc = "retry"
    /\ AgentLogin(BANK_B)
    /\ bB_pc' = "poll"
    /\ UNCHANGED <<brokerSide, storeVars, sent>>
    /\ UNCHANGED <<consumerVars, bankAVars, bB_intents, processed_intents>>

\* what str(uuid.uuid4()) can be: never the empty string
Uuids == TxIds \ {""}

ConsumerStep ==
    \/ ConsumerStart
    \/ \E cs \in CreditScores : ConsumerInput(cs)
    \/ \E t \in Uuids : ConsumerSubmit(t)
    \/ ConsumerPoll
    \/ ConsumerGiveUp

\* BankProcess is no disjunct: the discovery call never succeeds, so b_pc is
\* never "process"
BankStep ==
    \/ BankStart
    \/ BankPoll
    \/ BankRetry

NextE2E == ConsumerStep \/ BankStep

\* each agent is a process of its own and keeps running
SpecE2E == Init /\ [][NextE2E]_vars /\ WF_vars(ConsumerStep) /\ WF_vars(BankStep)

-----------------------------------------------------------------------------
(* The three agents when calls can fail: the network between the agents    *)
(* and the broker comes and goes, and proposals can reach the broker from  *)
(* a bank's operator, who holds the bank's token and was told the          *)
(* transaction identifier                                                  *)

\* the network fails or recovers
Partition ==
    /\ reachable' = ~reachable
    /\ call' = NoCall
    /\ UNCHANGED <<now, SCOPES_MAP, inflight, resp, seen, storeVars, tokenVars, sent>>
    /\ UNCHANGED <<consumerVars, bankVars>>

\* POST /submit_proposal with bank b's token, not from its agent's loop
OperatorProposal(b, t) ==
    LET req == ProposalRequest(ProposalOf(b, t))
        r == Call(req, access_token[b])
    IN
    /\ access_token[b].present
    /\ t \in DOMAIN intents_db
    /\ HasRoom(t)
    /\ AgentCall(r, req)
    /\ call' = NoCall
    /\ UNCHANGED <<brokerSide, tokenVars, sent>>
    /\ UNCHANGED <<consumerVars, bankVars>>

\* as BankStep: bank B's discovery call never succeeds either
BankBStep ==
    \/ BankBStart
    \/ BankBPoll
    \/ BankBRetry

NextFail ==
    \/ ConsumerStep
    \/ BankStep
    \/ BankBStep
    \/ Partition
    \/ \E b \in Banks, t \in TxIds : OperatorProposal(b, t)

SpecFail ==
    Init /\ [][NextFail]_vars
    /\ WF_vars(ConsumerStep) /\ WF_vars(BankStep) /\ WF_vars(BankBStep)

-----------------------------------------------------------------------------
(* The agents with a discovery listing.  main.py has no GET /get_intents;  *)
(* the listing here is the one the banks' loops are written against: the   *)
(* open intents, which the broker never closes, every time it is asked.    *)

RECURSIVE SeqOfSet(_)
SeqOfSet(S) ==
    IF S = {} THEN <<>>
    ELSE LET x == CHOOSE x \in S : TRUE IN <<x>> \o SeqOfSet(S \ {x})

\* GET /get_intents: the stored intents
listed_intents(idb) ==
    [status |-> 200, json |-> SeqOfSet({idb[t] : t \in DOMAIN idb})]

BankDiscover == BankPollGot(IF reachable THEN listed_intents(intents_db) ELSE NoResponse)
BankBDiscover == BankBPollGot(IF reachable THEN listed_intents(intents_db) ELSE NoResponse)

NextDisc ==
    \/ ConsumerStep
    \/ BankStart \/ BankDiscover \/ BankProcess
    \/ BankBStart \/ BankBDiscover \/ BankBProcess

SpecDisc == Init /\ [][NextDisc]_vars

-----------------------------------------------------------------------------
(* What the claims speak of *)

Protected(op) == op \in {"submit_intent", "submit_proposal", "get_proposals"}

\* the token presented was signed by the broker, is unaltered and unexpired
ValidAt(tok, at) ==
    /\ tok.present
    /\ tok.key = SECRET_KEY
    /\ tok.signed = tok.payload
    /\ at < tok.payload.exp

\* the last response answers operation op, asked with a valid token
Answered(op) ==
    /\ resp.req.op = op
    /\ ValidAt(resp.token, resp.at)

StoresUntouched ==
    /\ intents_db = resp.pre_idb
    /\ proposals_db = resp.pre_pdb

\* C1: a proposal from a caller with a valid token carrying bank:write is
\* rejected with 404 "not found" while no submit_intent has succeeded for its
\* transaction identifier, and once one has succeeded it is accepted: the
\* proposal is appended to the transaction's Proposal Set and acknowledged.
C1_Linkage ==
    (Answered("submit_proposal") /\ "bank:write" \in resp.token.payload.scopes)
    => LET t == resp.req.transaction_id IN
       IF t \notin intent_acked
       THEN /\ resp.status = 404
            /\ resp.detail = "Transaction ID not found"
            /\ StoresUntouched
       ELSE /\ resp.status = 200
            /\ resp.detail = "Proposal received"
            /\ t \in DOMAIN resp.pre_pdb
            /\ proposals_db = [resp.pre_pdb EXCEPT ![t] = Append(@, resp.req.proposal)]
            /\ intents_db = resp.pre_idb

\* a proposal accepted on a Proposal Set that already held one, and a
\* proposal for another transaction refused beside it
C1_Witness ==
    /\ Answered("submit_proposal")
    /\ resp.status = 200
    /\ Len(resp.pre_pdb[resp.req.transaction_id]) >= 1
    /\ \E t \in TxIds : t \notin intent_acked

\* C5: a request with a validly signed, unexpired token whose scope set lacks
\* the scope the operation requires is answered 403 and changes neither store.
C5_ScopeEnforcement ==
    \A op \in {"submit_intent", "submit_proposal", "get_proposals"} :
        (Answered(op) /\ RequiredScope(op) \notin resp.token.payload.scopes)
        => /\ resp.status = 403
           /\ resp.body = <<>>
           /\ StoresUntouched

\* the consumer's valid token refused on submit_proposal for a transaction
\* that exists
C5_Witness ==
    /\ Answered("submit_proposal")
    /\ resp.token.payload.sub = CONSUMER
    /\ resp.status = 403
    /\ resp.req.transaction_id \in DOMAIN proposals_db

\* C9: for a caller holding consumer:read, get_proposals answers 404 "not
\* found" when no intent was ever submitted for the transaction, the empty
\* sequence (with success) when the intent exists and no proposal was accepted
\* since, and otherwise the whole current Proposal Set.
C9_Query ==
    (Answered("get_proposals") /\ "consumer:read" \in resp.token.payload.scopes)
    => LET t == resp.req.transaction_id IN
       IF t \notin intent_acked
       THEN /\ resp.status = 404
            /\ resp.detail = "Transaction ID not found"
       ELSE /\ resp.status = 200
            /\ resp.body = proposals_db[t]
            /\ resp.body = acked[t]
            /\ (acked[t] = <<>> => resp.body = <<>>)

\* an existing intent without proposals is answered with the empty sequence
C9_Witness ==
    /\ Answered("get_proposals")
    /\ resp.status = 200
    /\ resp.body = <<>>
    /\ \E t \in TxIds : t \in DOMAIN proposals_db /\ proposals_db[t] # <<>>

\* C2: if a successful get_proposals(t) returned P1 and a later one returns
\* P2, every proposal of P1 is in P2.
C2_MonotonicVisibility ==
    (resp.req.op = "get_proposals" /\ resp.status = 200 /\ resp.prev_seen.any)
    => resp.prev_seen.set \subseteq Range(resp.body)

\* how often p occurs in the sequence s
Count(s, p) == Cardinality({i \in DOMAIN s : s[i] = p})

\* C3: proposals submitted concurrently by distinct banks against an existing
\* transaction are all acknowledged, and every proposal acknowledged since
\* the transaction's last submit_intent is in its Proposal Set.
C3_ConcurrentAppend ==
    /\ (Answered("submit_proposal")
        /\ "bank:write" \in resp.token.payload.scopes
        /\ resp.req.transaction_id \in intent_acked)
       => resp.status = 200
    /\ \A t \in intent_acked :
        /\ t \in DOMAIN proposals_db
        /\ \A p \in Range(acked[t]) : Count(acked[t], p) <= Count(proposals_db[t], p)
        /\ Len(proposals_db[t]) = Len(acked[t])

\* the two banks' submissions overlapped, both have returned, both are stored
C3_Witness ==
    /\ Answered("submit_proposal")
    /\ resp.status = 200
    /\ resp.overlap \cap Banks # {}
    /\ InFlight = {}
    /\ LET t == resp.req.transaction_id IN
       /\ Len(acked[t]) = 2
       /\ {p.bank_id : p \in Range(proposals_db[t])} = Banks

\* C4: submit_intent and submit_proposal on one key are atomic to each other:
\* the two stores always hold the same keys, no request finds a transaction
\* in the intent store and not in the proposal store, and each accepted
\* request leaves exactly the stores one whole run of its handler produces.
C4_Atomic ==
    /\ DOMAIN intents_db = DOMAIN proposals_db
    /\ DOMAIN resp.pre_idb = DOMAIN resp.pre_pdb
    /\ (resp.req.op \in {"submit_proposal", "get_proposals"} /\ resp.status = 404)
       => resp.req.transaction_id \notin DOMAIN resp.pre_idb
    /\ (resp.req.op = "submit_proposal" /\ resp.status = 200)
       => /\ resp.req.transaction_id \in DOMAIN resp.pre_idb
          /\ intents_db = resp.pre_idb
          /\ proposals_db = [resp.pre_pdb EXCEPT ![resp.req.transaction_id] =
                                Append(@, resp.req.proposal)]
    /\ (resp.req.op = "submit_intent" /\ resp.status = 200)
       => LET t == resp.req.transaction_id IN
          /\ intents_db[t] = resp.req.intent
          /\ proposals_db[t] = <<>>
          /\ \A u \in DOMAIN resp.pre_idb \ {t} :
                intents_db[u] = resp.pre_idb[u] /\ proposals_db[u] = resp.pre_pdb[u]

\* a proposal answered 404 while the submit_intent for the same transaction,
\* already past its dependency, has not run its body
C4_Witness ==
    /\ resp.req.op = "submit_proposal"
    /\ resp.status = 404
    /\ CONSUMER \in resp.overlap
    /\ inflight[CONSUMER].req.op = "submit_intent"
    /\ inflight[CONSUMER].req.transaction_id = resp.req.transaction_id

\* C6: whether a protected request with a valid token is allowed or forbidden
\* depends only on the scopes in the token: it is forbidden exactly when the
\* required scope is not among them, whatever the credential table says by
\* the time of the request.
C6_TokenIsSoleBasis ==
    \A op \in {"submit_intent", "submit_proposal", "get_proposals"} :
        Answered(op)
        => (resp.status = 403 <=> RequiredScope(op) \notin resp.token.payload.scopes)

\* the token was signed by the broker; what it signed is in tok.signed
IssuedByBroker(tok) == tok.present /\ tok.key = SECRET_KEY

C8_Expiry ==
    /\ (resp.req.op = "token" /\ resp.status = 200)
       => resp.token.payload.exp = resp.at + 1800
    /\ \A c \in Agents :
        access_token[c].present
        => /\ issued_at[c] >= 0
           /\ access_token[c].payload.exp = issued_at[c] + 1800
    /\ \A c \in Agents :
        (Protected(resp.req.op) /\ access_token[c].present /\ resp.token = access_token[c])
        => /\ (resp.at < issued_at[c] + 1800 => resp.status # 401)
           /\ (resp.at > issued_at[c] + 1800 => resp.status = 401)

\* a token issued after the start refused one second after its expiry
C8_Witness ==
    /\ Protected(resp.req.op)
    /\ resp.token = access_token[CONSUMER]
    /\ issued_at[CONSUMER] > 0
    /\ resp.at = issued_at[CONSUMER] + 1801
    /\ resp.status = 401

\* C10: once the consumer has submitted an intent with credit_score "good"
\* and its run has ended, it has received exactly one proposal, bank A's
\* offer at 5% against its transaction, and has selected it.
C10_EndToEnd ==
    (c_pc \in {"done", "exit"} /\ c_txid # NoneValue /\ c_input.credit_score = "good")
    => /\ c_pc = "done"
       /\ Len(c_proposals) = 1
       /\ c_proposals[1].transaction_id = c_txid
       /\ c_proposals[1].bank_id = BANK_A
       /\ c_proposals[1].interest_rate = 5
       /\ c_best = c_proposals[1]

\* bank A never gets a listing of intents and never submits a proposal
E2E_NoDiscovery ==
    /\ b_pc # "process"
    /\ \A t \in DOMAIN proposals_db : proposals_db[t] = <<>>

\* C11: a submit_intent for a transaction identifier that already exists is
\* accepted, replaces the stored Intent and leaves the transaction's Proposal
\* Set empty, whatever it held.
C11_Resubmission ==
    (Answered("submit_intent")
     /\ "consumer:write" \in resp.token.payload.scopes
     /\ resp.req.transaction_id \in DOMAIN resp.pre_idb)
    => LET t == resp.req.transaction_id IN
       /\ resp.status = 200
       /\ resp.detail = "Intent received"
       /\ intents_db[t] = resp.req.intent
       /\ proposals_db[t] = <<>>
       /\ \A u \in DOMAIN resp.pre_idb \ {t} :
            intents_db[u] = resp.pre_idb[u] /\ proposals_db[u] = resp.pre_pdb[u]

\* a resubmission with other fields against a transaction that held proposals
C11_Witness ==
    /\ Answered("submit_intent")
    /\ resp.status = 200
    /\ resp.req.transaction_id \in DOMAIN resp.pre_idb
    /\ resp.pre_idb[resp.req.transaction_id] # resp.req.intent
    /\ resp.pre_pdb[resp.req.transaction_id] # <<>>

\* C12: an Intent stored under a transaction identifier keeps its fields and
\* its key through every later step of the broker.
C12_IntentImmutable ==
    [][\A t \in DOMAIN intents_db :
          t \in DOMAIN intents_db' /\ intents_db'[t] = intents_db[t]]_vars

\* C13: a submit_intent with the empty transaction identifier from a caller
\* holding consumer:write is rejected, and neither store ever has the empty
\* key.
C13_NonEmptyId ==
    /\ "" \notin DOMAIN intents_db
    /\ "" \notin DOMAIN proposals_db
    /\ (Answered("submit_intent")
        /\ "consumer:write" \in resp.token.payload.scopes
        /\ resp.req.transaction_id = "")
       => resp.status # 200

\* C14: a protected request answered with an error leaves both stores as it
\* found them; 401 is the answer exactly when the token is missing, forged,
\* altered or expired, and is given before any handler logic (no subject, no
\* scope lookup); 403 and 404 are given for a missing scope and an unknown
\* transaction identifier.
C14_NoPartialSuccess ==
    Protected(resp.req.op)
    => /\ resp.status \in {200, 401, 403, 404}
       /\ (resp.status # 200 => StoresUntouched /\ resp.body = <<>>)
       /\ (resp.status = 401 <=> ~ValidAt(resp.token, resp.at))
       /\ (resp.status = 401 => resp.agent_id = NoneValue /\ resp.scopes = {})
       /\ (resp.status = 403 => RequiredScope(resp.req.op) \notin resp.scopes)
       /\ (resp.status = 404 => resp.req.transaction_id \notin DOMAIN resp.pre_pdb)

\* a proposal under a token altered to name a bank, against a transaction
\* that holds a proposal already, refused with 401
C14_Witness ==
    /\ resp.req.op = "submit_proposal"
    /\ resp.status = 401
    /\ resp.token.present
    /\ resp.token.key = SECRET_KEY
    /\ resp.token.payload.sub = BANK_A
    /\ resp.token.signed.sub = CONSUMER
    /\ resp.req.transaction_id \in DOMAIN proposals_db
    /\ proposals_db[resp.req.transaction_id] # <<>>

\* C15: POST /token answers an unknown identity and a wrong secret with the
\* same status and the same detail, and issues a token only when identity and
\* secret both match the credential table.
C15_UniformRejection ==
    resp.req.op = "token"
    => IF /\ resp.username \in DOMAIN AGENT_CREDENTIALS
          /\ resp.password = AGENT_CREDENTIALS[resp.username].client_secret
       THEN /\ resp.status = 200
            /\ IssuedByBroker(resp.token)
            /\ resp.token.payload.sub = resp.username
       ELSE /\ resp.status = 401
            /\ resp.detail = "Incorrect client ID or secret"
            /\ resp.token = NoToken

\* an unknown identity refused while another client holds a token
C15_Witness ==
    /\ resp.req.op = "token"
    /\ resp.username \notin DOMAIN AGENT_CREDENTIALS
    /\ resp.status = 401
    /\ \E c \in Agents : access_token[c].present

\* C19: the Proposal Set of a transaction is the sequence of the proposals
\* accepted for it since its last successful submit_intent, repeated
\* proposals of one bank included.
C19_DuplicatesRetained ==
    \A t \in DOMAIN proposals_db :
        /\ Len(proposals_db[t]) = Len(acked[t])
        /\ proposals_db[t] = acked[t]

\* the same proposal of the same bank held twice
C19_Witness ==
    \E t \in DOMAIN proposals_db :
        /\ Len(proposals_db[t]) = 2
        /\ proposals_db[t][1] = proposals_db[t][2]
        /\ resp.req.op = "submit_proposal"
        /\ resp.status = 200

\* C20: the two stores have the same keys, and every proposal (and every
\* intent) is filed under its own transaction identifier.
C20_StoreConsistency ==
    /\ DOMAIN intents_db = DOMAIN proposals_db
    /\ \A t \in DOMAIN intents_db : intents_db[t].transaction_id = t
    /\ \A t \in DOMAIN proposals_db :
        \A i \in DOMAIN proposals_db[t] : proposals_db[t][i].transaction_id = t

\* both transactions hold a proposal, and a bank's submit_intent was refused
C20_Witness ==
    /\ DOMAIN proposals_db = TxIds
    /\ \A t \in TxIds : proposals_db[t] # <<>>
    /\ resp.req.op = "submit_intent"
    /\ resp.status = 403

\* where agent a's main is
pc_of(a) ==
    CASE a = CONSUMER -> c_pc
      [] a = BANK_A -> b_pc
      [] a = BANK_B -> bB_pc

Looping == {"poll", "process", "retry"}

\* C16: a bank agent, A or B, sends at most one submit_proposal for a
\* transaction, however often the listing returns it.
C16_AtMostOne ==
    \A b \in Banks, t \in TxIds : sent[b][t] <= 1

C18_NoTermination ==
    [][/\ c_pc = "poll" => c_pc' = "poll"
       /\ \A b \in Banks : pc_of(b) \in Looping => pc_of(b)' \in Looping]_vars

\* C18 as amended: a bank's polling loop never ends.  The consumer's loop ends
\* when a poll returns proposals, of which it then picks one, and after 10
\* polls without proposals, when the consumer exits.
C18_LoopsEnd ==
    [][/\ \A b \in Banks : pc_of(b) \in Looping => pc_of(b)' \in Looping
       /\ (c_pc = "poll" /\ c_pc' # "poll")
          => \/ /\ c_pc' = "done"
                /\ c_proposals' # <<>>
                /\ c_best' \in Range(c_proposals')
             \/ /\ c_pc' = "exit"
                /\ c_proposals = <<>>
                /\ c_retries = 10]_vars

\* the consumer has given up after its tenth poll while both banks, one of
\* them without a token, are still in their loops
C18_Witness ==
    /\ c_pc = "exit"
    /\ c_retries = 10
    /\ b_pc \in Looping
    /\ bB_pc \in Looping
    /\ ~access_token[BANK_B].present

\* what the caller of a request sees of its answer
Visible(r) == [status |-> r.status, detail |-> r.detail, body |-> r.body]

\* the stores with transaction t opened, and with no transaction at all
WithIntent(t) ==
    [idb |-> dict_set(EmptyDb, t, [NoIntent EXCEPT !.transaction_id = t]),
     pdb |-> dict_set(EmptyDb, t, <<>>)]
Without == [idb |-> EmptyDb, pdb |-> EmptyDb]

\* C21: submit_proposal and get_proposals check the token (401), then the
\* scope (403), then the transaction identifier (404): a valid token without
\* the required scope is answered 403 whether the transaction exists or not,
\* and the answer it gets is the one it would get from a broker that has the
\* transaction and from one that has none.
C21_ErrorPrecedence ==
    \A op \in {"submit_proposal", "get_proposals"} :
        resp.req.op = op
        => LET t == resp.req.transaction_id
               scoped == RequiredScope(op) \in resp.token.payload.scopes
               known == t \in DOMAIN resp.pre_pdb
           IN
           /\ resp.status = IF ~ValidAt(resp.token, resp.at) THEN 401
                            ELSE IF ~scoped THEN 403
                            ELSE IF ~known THEN 404
                            ELSE 200
           /\ (ValidAt(resp.token, resp.at) /\ ~scoped)
              => \A db \in {WithIntent(t), Without} :
                    Visible(Endpoint(resp.req, resp.token, resp.at, SCOPES_MAP,
                                     db.idb, db.pdb))
                    = Visible(resp)

\* the consumer's valid token refused with 403 on a proposal for a
\* transaction the broker does not have
C21_Witness ==
    /\ Answered("submit_proposal")
    /\ resp.token.payload.sub = CONSUMER
    /\ resp.status = 403
    /\ resp.req.transaction_id \notin DOMAIN resp.pre_pdb
    /\ resp.at > 0

====
